---- MODULE Spec2Model ----
(***************************************************************************)
(* Model of the evacuation route planner (app/engine.py, RoutePlanner).    *)
(*                                                                         *)
(* Geometry points are <<lon, lat>> tuples (a third component is a Z       *)
(* coordinate), in steps of 0.005 degree counted from (16.90, 52.40).      *)
(* Distances are whole numbers of decametres; the distance function is the *)
(* planar form of the haversine formula at latitude 52.4.  Hazard zones    *)
(* are axis-aligned rectangles, a sub-family of the polygons the planner   *)
(* accepts.  Every reported distance is a whole number, so rounding it to  *)
(* two decimals leaves it unchanged.                                       *)
(***************************************************************************)
EXTENDS Integers, Sequences, FiniteSets, TLC

(***************************************************************************)
(* Bounds of the model.                                                    *)
(***************************************************************************)
\* set_flood_zones calls allowed between two builds
MaxOverlays == 2

\* graph versions one search may overlap: a write begins during a search only
\* while the search has met fewer versions than this
MaxVersions == 2

(***************************************************************************)
(* Python values.                                                          *)
(***************************************************************************)
None == [py |-> "None"]

Exc(name) == [py |-> "raise", exc |-> name]

IsExc(v) == "exc" \in DOMAIN v

\* True and False as values a call returns
True == [py |-> "True"]

False == [py |-> "False"]

Bool(b) == IF b THEN True ELSE False

(***************************************************************************)
(* app/utils.py                                                            *)
(***************************************************************************)
RECURSIVE SqrtSearch(_, _, _)
SqrtSearch(n, lo, hi) ==
    IF lo >= hi THEN lo
    ELSE LET mid == (lo + hi + 1) \div 2
         IN  IF mid * mid <= n THEN SqrtSearch(n, mid, hi)
                               ELSE SqrtSearch(n, lo, mid - 1)

\* floor of the square root
Sqrt(n) == SqrtSearch(n, 0, 2048)

Abs(i) == IF i < 0 THEN -i ELSE i

\* decametres per coordinate step along a meridian
LatScale == 56

\* decametres per coordinate step along the parallel of 52.4 degrees
LonScale == 34

haversine_distance(lat1, lon1, lat2, lon2) ==
    LET delta_phi    == Abs(lat2 - lat1) * LatScale
        delta_lambda == Abs(lon2 - lon1) * LonScale
    IN  Sqrt(delta_phi * delta_phi + delta_lambda * delta_lambda)

(***************************************************************************)
(* Geometry (shapely): LineString([start, end]).intersects(polygon) for a  *)
(* rectangle [xmin, xmax] x [ymin, ymax]; touching counts.                 *)
(***************************************************************************)
Cross(o, a, b) == (a[1] - o[1]) * (b[2] - o[2]) - (a[2] - o[2]) * (b[1] - o[1])

Min2(a, b) == IF a < b THEN a ELSE b

Max2(a, b) == IF a > b THEN a ELSE b

\* r lies in the bounding box of p and q
InBox(p, q, r) ==
    /\ Min2(p[1], q[1]) <= r[1] /\ r[1] <= Max2(p[1], q[1])
    /\ Min2(p[2], q[2]) <= r[2] /\ r[2] <= Max2(p[2], q[2])

Sign(i) == IF i > 0 THEN 1 ELSE IF i < 0 THEN -1 ELSE 0

SegmentsIntersect(p1, q1, p2, q2) ==
    LET o1 == Sign(Cross(p1, q1, p2))
        o2 == Sign(Cross(p1, q1, q2))
        o3 == Sign(Cross(p2, q2, p1))
        o4 == Sign(Cross(p2, q2, q1))
    IN  \/ (o1 # o2 /\ o3 # o4)
        \/ (o1 = 0 /\ InBox(p1, q1, p2))
        \/ (o2 = 0 /\ InBox(p1, q1, q2))
        \/ (o3 = 0 /\ InBox(p2, q2, p1))
        \/ (o4 = 0 /\ InBox(p2, q2, q1))

InZone(p, z) ==
    /\ z.xmin <= p[1] /\ p[1] <= z.xmax
    /\ z.ymin <= p[2] /\ p[2] <= z.ymax

intersects(geom, z) ==
    LET s  == geom[1]
        e  == geom[2]
        c1 == <<z.xmin, z.ymin>>
        c2 == <<z.xmax, z.ymin>>
        c3 == <<z.xmax, z.ymax>>
        c4 == <<z.xmin, z.ymax>>
    IN  \/ InZone(s, z)
        \/ InZone(e, z)
        \/ SegmentsIntersect(s, e, c1, c2)
        \/ SegmentsIntersect(s, e, c2, c3)
        \/ SegmentsIntersect(s, e, c3, c4)
        \/ SegmentsIntersect(s, e, c4, c1)

(***************************************************************************)
(* The inputs: road files, hazard zone lists, query coordinates.           *)
(***************************************************************************)
PA == <<0, 0>>

PB == <<4, 0>>

PC == <<2, 2>>

PD == <<8, 0>>

PE == <<8, 2>>

\* a coordinate with a Z component
PF == <<6, 2, 1>>

LineStringRow(coords) == [geom_type |-> "LineString", geoms |-> <<coords>>]

MultiLineStringRow(lines) == [geom_type |-> "MultiLineString", geoms |-> lines]

PointRow(p) == [geom_type |-> "Point", geoms |-> <<>>]

\* a feature whose geometry is null
NullRow == [geom_type |-> "None", geoms |-> <<>>]

\* the road file of tests/test_engine.py: a direct road and a detour
TestMap ==
    [rows |-> << LineStringRow(<<PA, PB>>),
                 LineStringRow(<<PA, PC>>),
                 LineStringRow(<<PC, PB>>) >>]

\* two components, a multi-part feature, a feature that is no line, and a
\* vertex pair that is inserted twice
IslandMap ==
    [rows |-> << MultiLineStringRow(<< <<PA, PB>>, <<PD, PE>> >>),
                 LineStringRow(<<PA, PC, PB>>),
                 PointRow(PC),
                 LineStringRow(<<PB, PA>>) >>]

\* a readable file without any feature
EmptyMap == [rows |-> << >>]

\* a road with a three-dimensional coordinate
Map3D ==
    [rows |-> << LineStringRow(<<PA, PB>>),
                 LineStringRow(<<PB, PF>>) >>]

\* the file cannot be read
Unreadable == None

RoadFiles == {TestMap, IslandMap, EmptyMap, Map3D, Unreadable}

\* a file whose second feature has no geometry
NullMap ==
    [rows |-> << LineStringRow(<<PA, PB>>),
                 NullRow,
                 LineStringRow(<<PA, PC>>) >>]

\* there is no file at data/map_data.geojson
Missing == [py |-> "missing"]

\* what initialize_app may find at data/map_data.geojson
AppFiles == RoadFiles \cup {NullMap, Missing}

Zone(x1, x2, y1, y2) == [xmin |-> x1, xmax |-> x2, ymin |-> y1, ymax |-> y2]

\* covers the middle of the direct road PA-PB only
ZoneDirect == Zone(1, 3, -1, 0)

\* touches the road PA-PC only
ZoneDetour == Zone(0, 1, 1, 2)

\* covers the road PD-PE only
ZoneIsland == Zone(7, 9, 0, 1)

ZoneLists ==
    { << >>, <<ZoneDirect>>, <<ZoneDetour>>, <<ZoneDirect, ZoneDetour>>,
      <<ZoneIsland>> }

\* query coordinates, as [lat, lon]
Queries ==
    { [lat |-> 0, lon |-> 0], [lat |-> 0, lon |-> 4], [lat |-> 1, lon |-> 8] }

\* the coordinates the nearest-vertex lookup is called with on its own
NearestQueries == Queries \cup { [lat |-> 1, lon |-> 2] }

(***************************************************************************)
(* The graph (networkx.Graph): the vertices in insertion order, for each   *)
(* vertex its neighbours in insertion order, and one attribute record per  *)
(* unordered vertex pair.                                                  *)
(***************************************************************************)
Contains(s, x) == \E i \in 1..Len(s) : s[i] = x

Range(s) == { s[i] : i \in 1..Len(s) }

\* nx.Graph()
EmptyGraph == [nodes |-> << >>, adj |-> [n \in {} |-> << >>], data |-> [k \in {} |-> None]]

AddNode(nodes, n) == IF Contains(nodes, n) THEN nodes ELSE Append(nodes, n)

\* add_edge that leaves the attributes of an existing pair as they are
add_edge_keep_first(G, u, v, attr) ==
    LET nodes1 == AddNode(AddNode(G.nodes, u), v)
        Old(n) == IF n \in DOMAIN G.adj THEN G.adj[n] ELSE << >>
    IN  [nodes |-> nodes1,
         adj   |-> [n \in Range(nodes1) |->
                      IF n = u /\ ~Contains(Old(n), v) THEN Append(Old(n), v)
                      ELSE IF n = v /\ ~Contains(Old(n), u) THEN Append(Old(n), u)
                      ELSE Old(n)],
         data  |-> [k \in DOMAIN G.data \cup {{u, v}} |->
                      IF k \in DOMAIN G.data THEN G.data[k] ELSE attr]]

\* Graph.add_edge(u, v, **attr): an existing pair has its attributes overwritten
add_edge(G, u, v, attr) ==
    LET nodes1 == AddNode(AddNode(G.nodes, u), v)
        Old(n) == IF n \in DOMAIN G.adj THEN G.adj[n] ELSE << >>
    IN  [nodes |-> nodes1,
         adj   |-> [n \in Range(nodes1) |->
                      IF n = u /\ ~Contains(Old(n), v) THEN Append(Old(n), v)
                      ELSE IF n = v /\ ~Contains(Old(n), u) THEN Append(Old(n), u)
                      ELSE Old(n)],
         data  |-> [k \in DOMAIN G.data \cup {{u, v}} |->
                      IF k = {u, v} THEN attr ELSE G.data[k]]]

\* Graph.get_edge_data(u, v)
get_edge_data(G, u, v) == IF {u, v} \in DOMAIN G.data THEN G.data[{u, v}] ELSE None

\* Graph.edges(): each pair once, by vertex order and then neighbour order
RECURSIVE EdgesFrom(_, _, _)
EdgesFrom(G, i, seen) ==
    IF i > Len(G.nodes) THEN << >>
    ELSE LET n    == G.nodes[i]
             nbrs == SelectSeq(G.adj[n], LAMBDA m : m \notin seen)
         IN  [j \in 1..Len(nbrs) |-> <<n, nbrs[j]>>] \o EdgesFrom(G, i + 1, seen \cup {n})

edges(G) == EdgesFrom(G, 1, {})

(***************************************************************************)
(* RoutePlanner: building the graph.                                       *)
(***************************************************************************)
\* the edge attributes set when a segment is inserted
NewEdge(start, end, feature_id, i) ==
    [weight     |-> haversine_distance(start[2], start[1], end[2], end[1]),
     geometry   |-> <<start, end>>,
     segment_id |-> <<feature_id, i>>,
     is_flooded |-> FALSE]

RECURSIVE AddSegments(_, _, _, _)
AddSegments(G, coords, feature_id, i) ==
    IF i > Len(coords) - 2 THEN G
    ELSE AddSegments(add_edge(G, coords[i + 1], coords[i + 2],
                              NewEdge(coords[i + 1], coords[i + 2], feature_id, i)),
                     coords, feature_id, i + 1)

_add_linestring_to_graph(G, linestring, feature_id) ==
    AddSegments(G, linestring, feature_id, 0)

RECURSIVE AddLines(_, _, _, _)
AddLines(G, lines, feature_id, j) ==
    IF j > Len(lines) THEN G
    ELSE AddLines(_add_linestring_to_graph(G, lines[j], feature_id), lines, feature_id, j + 1)

\* one iteration of the loop over the rows; r is the row index plus one
AddRow(G, rows, r) ==
    IF rows[r].geom_type \in {"LineString", "MultiLineString"}
    THEN AddLines(G, rows[r].geoms, r - 1, 1)
    ELSE G

RECURSIVE AddRows(_, _, _)
AddRows(G, rows, r) ==
    IF r > Len(rows) THEN G
    ELSE AddRows(AddRow(G, rows, r), rows, r + 1)

\* the return value of load_road_network and the frame it leaves behind
load_road_network(f, old_gdf) ==
    IF f = Unreadable THEN [ret |-> FALSE, gdf |-> old_gdf]
                      ELSE [ret |-> TRUE, gdf |-> f]

\* the rows without a geometry: geom.geom_type raises AttributeError there
NullRows(rows) == { r \in 1..Len(rows) : rows[r].geom_type = "None" }

\* the return value of build_graph (ret), the exception it raises instead
\* (exc, and then there is no return value), and the graph it leaves behind:
\* the rows before the first one without a geometry are in the graph when the
\* exception is raised
build_graph(the_gdf, old_graph) ==
    IF the_gdf = None THEN [ret |-> FALSE, exc |-> None, graph |-> old_graph]
    ELSE IF NullRows(the_gdf.rows) # {}
    THEN LET n == CHOOSE r \in NullRows(the_gdf.rows) : \A q \in NullRows(the_gdf.rows) : r <= q
         IN  [ret |-> FALSE, exc |-> Exc("AttributeError"),
              graph |-> AddRows(EmptyGraph, SubSeq(the_gdf.rows, 1, n - 1), 1)]
    ELSE [ret |-> TRUE, exc |-> None, graph |-> AddRows(EmptyGraph, the_gdf.rows, 1)]

(***************************************************************************)
(* RoutePlanner: the hazard overlay.                                       *)
(***************************************************************************)
PENALTY_FACTOR == 100

\* the loop body with the re-weighting left out
MarkEdgeFlagOnly(d, zones) ==
    IF \E k \in 1..Len(zones) : intersects(d.geometry, zones[k])
    THEN [d EXCEPT !.is_flooded = TRUE]
    ELSE d

\* the body of the loop over the edges, for one edge
MarkEdge(d, zones) ==
    IF \E k \in 1..Len(zones) : intersects(d.geometry, zones[k])
    THEN [d EXCEPT !.is_flooded = TRUE, !.weight = d.weight * PENALTY_FACTOR]
    ELSE d

_mark_flooded_edges(G, zones) ==
    IF zones = << >> THEN [ret |-> None, graph |-> G]
    ELSE IF G = None THEN [ret |-> Exc("AttributeError"), graph |-> G]
    ELSE [ret |-> None,
          graph |-> [G EXCEPT !.data = [k \in DOMAIN G.data |-> MarkEdge(G.data[k], zones)]]]

(***************************************************************************)
(* RoutePlanner: the nearest vertex.                                       *)
(***************************************************************************)
\* the scan with <= for <: the last of several closest vertices wins
RECURSIVE NearestScanLastTie(_, _, _, _, _)
NearestScanLastTie(nodes, lat, lon, i, best) ==
    IF i > Len(nodes) THEN (IF best = None THEN None ELSE [node |-> best.node])
    ELSE IF Len(nodes[i]) # 2 THEN Exc("ValueError")
    ELSE LET distance == haversine_distance(lat, lon, nodes[i][2], nodes[i][1])
         IN  IF best = None \/ distance <= best.min_distance
             THEN NearestScanLastTie(nodes, lat, lon, i + 1,
                                     [node |-> nodes[i], min_distance |-> distance])
             ELSE NearestScanLastTie(nodes, lat, lon, i + 1, best)

\* best is None or the closest vertex so far with its distance
RECURSIVE NearestScan(_, _, _, _, _)
NearestScan(nodes, lat, lon, i, best) ==
    IF i > Len(nodes) THEN (IF best = None THEN None ELSE [node |-> best.node])
    ELSE IF Len(nodes[i]) # 2 THEN Exc("ValueError")
    ELSE LET distance == haversine_distance(lat, lon, nodes[i][2], nodes[i][1])
         IN  IF best = None \/ distance < best.min_distance
             THEN NearestScan(nodes, lat, lon, i + 1,
                              [node |-> nodes[i], min_distance |-> distance])
             ELSE NearestScan(nodes, lat, lon, i + 1, best)

\* None, [node |-> the vertex], or the exception of unpacking a vertex
_find_nearest_node(G, lat, lon) == NearestScan(G.nodes, lat, lon, 1, None)

_heuristic(node1, node2) == haversine_distance(node1[2], node1[1], node2[2], node2[1])

(***************************************************************************)
(* nx.astar_path(G, source, target, heuristic, weight='weight').           *)
(* The queue holds (priority, counter, vertex, distance, parent); the      *)
(* smallest (priority, counter) is popped.                                 *)
(***************************************************************************)
Before(a, b) == a.prio < b.prio \/ (a.prio = b.prio /\ a.c < b.c)

HeapTop(queue) == CHOOSE a \in queue : \A b \in queue : a = b \/ Before(a, b)

RECURSIVE PathTo(_, _)
PathTo(explored, parent) ==
    IF parent = None THEN << >>
    ELSE Append(PathTo(explored, explored[parent.node]), parent.node)

\* the body of the loop over the neighbours that never replaces the cost of
\* a vertex already enqueued
RelaxOneFirstCost(G, target, curnode, dist, neighbor, st) ==
    LET ncost == dist + G.data[{curnode, neighbor}].weight
        h     == _heuristic(neighbor, target)
    IN  IF neighbor \in DOMAIN st.enqueued
        THEN st
        ELSE [queue    |-> st.queue \cup
                           {[prio |-> ncost + h, c |-> st.c, node |-> neighbor,
                             dist |-> ncost, parent |-> [node |-> curnode]]},
              c        |-> st.c + 1,
              enqueued |-> [n \in DOMAIN st.enqueued \cup {neighbor} |->
                              IF n = neighbor THEN [qcost |-> ncost, h |-> h]
                                              ELSE st.enqueued[n]]]

\* the body of the loop over the neighbours, for one neighbour;
\* st = [queue, c, enqueued]
RelaxOne(G, target, curnode, dist, neighbor, st) ==
    LET ncost == dist + G.data[{curnode, neighbor}].weight
        known == neighbor \in DOMAIN st.enqueued
    IN  IF known /\ st.enqueued[neighbor].qcost <= ncost
        THEN st
        ELSE LET h == IF known THEN st.enqueued[neighbor].h
                               ELSE _heuristic(neighbor, target)
             IN  [queue    |-> st.queue \cup
                               {[prio |-> ncost + h, c |-> st.c, node |-> neighbor,
                                 dist |-> ncost, parent |-> [node |-> curnode]]},
                  c        |-> st.c + 1,
                  enqueued |-> [n \in DOMAIN st.enqueued \cup {neighbor} |->
                                  IF n = neighbor THEN [qcost |-> ncost, h |-> h]
                                                  ELSE st.enqueued[n]]]

\* the loop over the neighbours of curnode, from the j-th on
RECURSIVE Relax(_, _, _, _, _, _)
Relax(G, target, curnode, dist, j, st) ==
    IF j > Len(G.adj[curnode]) THEN st
    ELSE Relax(G, target, curnode, dist, j + 1,
               RelaxOne(G, target, curnode, dist, G.adj[curnode][j], st))

\* every popped entry that is not the target is expanded, the entries of
\* vertices already explored included
PopKindNoSkip(target, top, st, explored) ==
    IF top.node = target THEN "found" ELSE "expanded"

\* what the loop does with the entry it popped: end at the target (found),
\* drop it (skipped), or relax its neighbours (expanded)
PopKind(target, top, st, explored) ==
    IF top.node = target THEN "found"
    ELSE IF /\ top.node \in DOMAIN explored
            /\ \/ explored[top.node] = None
               \/ st.enqueued[top.node].qcost < top.dist
    THEN "skipped"
    ELSE "expanded"

\* explored[curnode] = parent
Explore(explored, top) ==
    [n \in DOMAIN explored \cup {top.node} |-> IF n = top.node THEN top.parent ELSE explored[n]]

\* one iteration of the while loop over a non-empty queue
AStarStep(G, target, st, explored) ==
    LET top  == HeapTop(st.queue)
        rest == [st EXCEPT !.queue = st.queue \ {top}]
        kind == PopKind(target, top, st, explored)
    IN  [kind     |-> kind,
         path     |-> IF kind = "found" THEN Append(PathTo(explored, top.parent), top.node)
                                        ELSE << >>,
         st       |-> IF kind = "expanded" THEN Relax(G, target, top.node, top.dist, 1, rest)
                                           ELSE rest,
         explored |-> IF kind = "expanded" THEN Explore(explored, top) ELSE explored]

RECURSIVE AStarLoop(_, _, _, _)
AStarLoop(G, target, st, explored) ==
    IF st.queue = {} THEN Exc("NetworkXNoPath")
    ELSE LET step == AStarStep(G, target, st, explored)
         IN  IF step.kind = "found" THEN [path |-> step.path]
             ELSE AStarLoop(G, target, step.st, step.explored)

\* the queue, the counter and the two dictionaries before the first iteration
AStarStart(source) ==
    [st       |-> [queue    |-> {[prio |-> 0, c |-> 0, node |-> source, dist |-> 0, parent |-> None]},
                   c        |-> 1,
                   enqueued |-> [n \in {} |-> None]],
     explored |-> [n \in {} |-> None]]

\* [path |-> the vertices] or the NetworkXNoPath exception
astar_path(G, source, target) ==
    AStarLoop(G, target, AStarStart(source).st, AStarStart(source).explored)

(***************************************************************************)
(* RoutePlanner: the metrics of a path and find_route.                     *)
(***************************************************************************)
RECURSIVE PathLengthFrom(_, _, _)
PathLengthFrom(G, path, i) ==
    IF i > Len(path) - 1 THEN 0
    ELSE LET edge_data == get_edge_data(G, path[i], path[i + 1])
             weight    == IF edge_data = None THEN 0
                          ELSE IF edge_data.is_flooded
                               THEN edge_data.weight \div PENALTY_FACTOR
                               ELSE edge_data.weight
         IN  weight + PathLengthFrom(G, path, i + 1)

_calculate_path_length(G, path) == PathLengthFrom(G, path, 1)

_count_flooded_segments(G, path) ==
    Cardinality({ i \in 1..(Len(path) - 1) :
                    LET edge_data == get_edge_data(G, path[i], path[i + 1])
                    IN  edge_data # None /\ edge_data.is_flooded })

\* the value find_route returns when it found a path
SuccessResult(path, total_distance, flooded_segments, start_lat, start_lon, end_lat, end_lon) ==
    [type     |-> "FeatureCollection",
     features |-> << [type       |-> "Feature",
                      geometry   |-> [type |-> "LineString", coordinates |-> path],
                      properties |-> [distance_meters  |-> total_distance,
                                      nodes_count      |-> Len(path),
                                      flooded_segments |-> flooded_segments]] >>,
     metadata |-> [start           |-> [lat |-> start_lat, lon |-> start_lon],
                   end             |-> [lat |-> end_lat, lon |-> end_lon],
                   distance_meters |-> total_distance,
                   status          |-> "success"]]

\* the value find_route returns from its NetworkXNoPath handler
NoPathResult ==
    [metadata |-> [status |-> "error", message |-> "Nie znaleziono trasy miedzy punktami"]]

\* the try block without the test for a missing vertex: astar_path is called
\* with None and raises NodeNotFound
TryFindRouteNoCheck(G, start_lat, start_lon, end_lat, end_lon) ==
    LET start_node == _find_nearest_node(G, start_lat, start_lon)
        end_node   == IF IsExc(start_node) THEN start_node
                      ELSE _find_nearest_node(G, end_lat, end_lon)
    IN  IF IsExc(start_node) THEN [val |-> start_node, searched |-> FALSE]
        ELSE IF IsExc(end_node) THEN [val |-> end_node, searched |-> FALSE]
        ELSE IF start_node = None \/ end_node = None
             THEN [val |-> Exc("NodeNotFound"), searched |-> TRUE]
        ELSE LET found == astar_path(G, start_node.node, end_node.node)
             IN  IF IsExc(found) THEN [val |-> found, searched |-> TRUE]
                 ELSE [val |-> SuccessResult(found.path,
                                             _calculate_path_length(G, found.path),
                                             _count_flooded_segments(G, found.path),
                                             start_lat, start_lon, end_lat, end_lon),
                       searched |-> TRUE]

\* the body of the try block: [val, searched], val a result or an exception;
\* searched tells whether astar_path was called
TryFindRoute(G, start_lat, start_lon, end_lat, end_lon) ==
    LET start_node == _find_nearest_node(G, start_lat, start_lon)
        end_node   == IF IsExc(start_node) THEN start_node
                      ELSE _find_nearest_node(G, end_lat, end_lon)
    IN  IF IsExc(start_node) THEN [val |-> start_node, searched |-> FALSE]
        ELSE IF IsExc(end_node) THEN [val |-> end_node, searched |-> FALSE]
        ELSE IF start_node = None \/ end_node = None THEN [val |-> None, searched |-> FALSE]
        ELSE LET found == astar_path(G, start_node.node, end_node.node)
             IN  IF IsExc(found) THEN [val |-> found, searched |-> TRUE]
                 ELSE [val |-> SuccessResult(found.path,
                                             _calculate_path_length(G, found.path),
                                             _count_flooded_segments(G, found.path),
                                             start_lat, start_lon, end_lat, end_lon),
                       searched |-> TRUE]

\* the except clauses with the catch-all clause first
ExceptFindRouteCatchAll(v) == IF ~IsExc(v) THEN v ELSE None

\* the except clauses of find_route
ExceptFindRoute(v) ==
    IF ~IsExc(v) THEN v
    ELSE IF v.exc = "NetworkXNoPath" THEN NoPathResult
    ELSE None

\* [val, searched, caught]: the value returned, whether astar_path was called,
\* and the exception an except clause handled (None when the try block ended
\* normally or was not entered)
find_route(G, start_lat, start_lon, end_lat, end_lon) ==
    IF G = None THEN [val |-> None, searched |-> FALSE, caught |-> None]
    ELSE LET r == TryFindRoute(G, start_lat, start_lon, end_lat, end_lon)
         IN  [val      |-> ExceptFindRoute(r.val),
              searched |-> r.searched,
              caught   |-> IF IsExc(r.val) THEN r.val ELSE None]

(***************************************************************************)
(* The planner as a state machine.                                         *)
(*   file         what gpd.read_file finds at geojson_path                 *)
(*   gdf, graph, flood_zones   the fields of the RoutePlanner              *)
(*   n_overlays   set_flood_zones calls since the last build               *)
(*   ret          the last completed call and what it returned             *)
(*   memo         None, or one find_route call made since the last build   *)
(*                or overlay, with its result                              *)
(*   writer, reader, versions   the calls in progress when the planner is  *)
(*                used from several threads                                *)
(*   app          the Flask module around the planner (app/main.py): whether *)
(*                the global planner is set and how initialize_app went    *)
(***************************************************************************)
VARIABLES file, gdf, graph, flood_zones, n_overlays, ret, memo, writer, reader, versions, app

vars == <<file, gdf, graph, flood_zones, n_overlays, ret, memo, writer, reader, versions, app>>

threads == <<writer, reader, versions>>

Idle == [pc |-> "idle"]

\* the planner is used directly, without the Flask module
NoApp == [pc |-> "none"]

\* RoutePlanner.__init__
Init ==
    /\ file \in RoadFiles
    /\ gdf = None
    /\ graph = None
    /\ flood_zones = << >>
    /\ n_overlays = 0
    /\ ret = [op |-> "__init__"]
    /\ memo = None
    /\ writer = Idle
    /\ reader = Idle
    /\ versions = {}
    /\ app = NoApp

LoadRoadNetwork ==
    LET r == load_road_network(file, gdf)
    IN  /\ gdf' = r.gdf
        /\ ret' = [op |-> "load_road_network", val |-> Bool(r.ret)]
        /\ UNCHANGED <<app, file, graph, flood_zones, n_overlays, memo, threads>>

BuildGraph ==
    LET r == build_graph(gdf, graph)
    IN  /\ graph' = r.graph
        /\ n_overlays' = IF r.ret THEN 0 ELSE n_overlays
        /\ ret' = [op |-> "build_graph", val |-> Bool(r.ret)]
        /\ memo' = None
        /\ UNCHANGED <<app, file, gdf, flood_zones, threads>>

SetFloodZones(zones) ==
    LET r == _mark_flooded_edges(graph, zones)
    IN  /\ n_overlays < MaxOverlays
        /\ flood_zones' = zones
        /\ graph' = r.graph
        /\ n_overlays' = n_overlays + 1
        /\ ret' = [op |-> "set_flood_zones", val |-> r.ret]
        /\ memo' = None
        /\ UNCHANGED <<app, file, gdf, threads>>

\* the record of a find_route call: its arguments, its result, whether the
\* search ran, whether the try block raised something other than NetworkXNoPath,
\* and whether memo holds an earlier call with the same arguments
RouteCall(G, s, e) ==
    LET r == find_route(G, s.lat, s.lon, e.lat, e.lon)
    IN  [op       |-> "find_route",
         args     |-> <<s, e>>,
         val      |-> r.val,
         searched |-> r.searched,
         fault    |-> r.caught # None /\ r.caught.exc # "NetworkXNoPath",
         repeated |-> memo # None /\ memo.args = <<s, e>>]

\* find_route with a _calculate_path_length that stores the restored weight
FindRouteWriting(s, e) ==
    /\ ret' = RouteCall(graph, s, e)
    /\ memo' \in {memo, [args |-> <<s, e>>, val |-> ret'.val]}
    /\ graph' = IF graph = None THEN graph
                ELSE [graph EXCEPT !.data = [k \in DOMAIN graph.data |->
                        IF graph.data[k].is_flooded
                        THEN [graph.data[k] EXCEPT !.weight = @ \div PENALTY_FACTOR]
                        ELSE graph.data[k]]]
    /\ UNCHANGED <<app, file, gdf, flood_zones, n_overlays, threads>>

FindRoute(s, e) ==
    /\ ret' = RouteCall(graph, s, e)
    /\ memo' \in {memo, [args |-> <<s, e>>, val |-> ret'.val]}
    /\ UNCHANGED <<app, file, gdf, graph, flood_zones, n_overlays, threads>>

\* a call of _find_nearest_node on its own
FindNearestNode(q) ==
    /\ ret' = [op   |-> "_find_nearest_node",
               args |-> q,
               val  |-> IF graph = None THEN Exc("AttributeError")
                        ELSE _find_nearest_node(graph, q.lat, q.lon)]
    /\ UNCHANGED <<app, file, gdf, graph, flood_zones, n_overlays, memo, threads>>

Next ==
    \/ LoadRoadNetwork
    \/ BuildGraph
    \/ \E zones \in ZoneLists : SetFloodZones(zones)
    \/ \E s \in Queries, e \in Queries : FindRoute(s, e)
    \/ \E q \in NearestQueries : FindNearestNode(q)

Spec == Init /\ [][Next]_vars

(***************************************************************************)
(* The planner used from two threads: one runs build_graph or              *)
(* set_flood_zones, the other find_route.  The planner holds no lock, so   *)
(* the steps of the two calls interleave.  A write advances one row or one *)
(* edge at a time; a search reads the graph three times: for the path, for *)
(* the length, for the hazard count.                                       *)
(*   writer     the write in progress, with the graph it started from      *)
(*              (before) and the graph it ends with (target)               *)
(*   reader     the search in progress, with what it has computed          *)
(*   versions   the graphs before and after each write that the search in  *)
(*              progress overlaps, or the graph it started on              *)
(***************************************************************************)
Overlapped(target) == IF reader = Idle THEN versions ELSE versions \cup {target}

MayBeginWrite == writer = Idle /\ (reader = Idle \/ Cardinality(versions) < MaxVersions)

BeginBuild ==
    /\ MayBeginWrite
    /\ gdf # None
    /\ writer' = [pc |-> "build_graph", row |-> 1,
                   before |-> graph, target |-> build_graph(gdf, graph).graph]
    /\ graph' = EmptyGraph
    /\ n_overlays' = 0
    /\ versions' = Overlapped(writer'.target)
    /\ UNCHANGED <<app, file, gdf, flood_zones, ret, memo, reader>>

BuildRow ==
    /\ writer.pc = "build_graph"
    /\ writer.row <= Len(gdf.rows)
    /\ graph' = AddRow(graph, gdf.rows, writer.row)
    /\ writer' = [writer EXCEPT !.row = @ + 1]
    /\ UNCHANGED <<app, file, gdf, flood_zones, n_overlays, ret, memo, reader, versions>>

EndBuild ==
    /\ writer.pc = "build_graph"
    /\ writer.row > Len(gdf.rows)
    /\ writer' = Idle
    /\ ret' = [op |-> "build_graph", val |-> TRUE]
    /\ UNCHANGED <<app, file, gdf, graph, flood_zones, n_overlays, memo, reader, versions>>

BeginOverlay(zones) ==
    /\ MayBeginWrite
    /\ graph # None
    /\ zones # << >>
    /\ n_overlays < MaxOverlays
    /\ flood_zones' = zones
    /\ n_overlays' = n_overlays + 1
    /\ writer' = [pc |-> "set_flood_zones", pending |-> edges(graph),
                   before |-> graph, target |-> _mark_flooded_edges(graph, zones).graph]
    /\ versions' = Overlapped(writer'.target)
    /\ UNCHANGED <<app, file, gdf, graph, ret, memo, reader>>

OverlayEdge ==
    /\ writer.pc = "set_flood_zones"
    /\ writer.pending # << >>
    /\ LET k == {Head(writer.pending)[1], Head(writer.pending)[2]}
       IN  graph' = [graph EXCEPT !.data[k] = MarkEdge(@, flood_zones)]
    /\ writer' = [writer EXCEPT !.pending = Tail(@)]
    /\ UNCHANGED <<app, file, gdf, flood_zones, n_overlays, ret, memo, reader, versions>>

EndOverlay ==
    /\ writer.pc = "set_flood_zones"
    /\ writer.pending = << >>
    /\ writer' = Idle
    /\ ret' = [op |-> "set_flood_zones", val |-> None]
    /\ UNCHANGED <<app, file, gdf, graph, flood_zones, n_overlays, memo, reader, versions>>

\* lines 131-151: the readiness check, the two nearest vertices, the search
BeginFind(s, e) ==
    /\ reader = Idle
    /\ LET r == find_route(graph, s.lat, s.lon, e.lat, e.lon)
       IN  reader' = IF r.val # None /\ r.val # NoPathResult
                     THEN [pc |-> "length", args |-> <<s, e>>,
                           path |-> r.val.features[1].geometry.coordinates]
                     ELSE [pc |-> "done", args |-> <<s, e>>, val |-> r.val]
    /\ versions' = IF writer = Idle THEN {graph} ELSE {writer.before, writer.target}
    /\ UNCHANGED <<app, file, gdf, graph, flood_zones, n_overlays, ret, memo, writer>>

\* line 154
FindLength ==
    /\ reader.pc = "length"
    /\ reader' = [pc |-> "count", args |-> reader.args, path |-> reader.path,
                  total_distance |-> _calculate_path_length(graph, reader.path)]
    /\ UNCHANGED <<app, file, gdf, graph, flood_zones, n_overlays, ret, memo, writer, versions>>

\* lines 155-180
FindCount ==
    /\ reader.pc = "count"
    /\ reader' = [pc |-> "done", args |-> reader.args,
                  val |-> SuccessResult(reader.path, reader.total_distance,
                                        _count_flooded_segments(graph, reader.path),
                                        reader.args[1].lat, reader.args[1].lon,
                                        reader.args[2].lat, reader.args[2].lon)]
    /\ UNCHANGED <<app, file, gdf, graph, flood_zones, n_overlays, ret, memo, writer, versions>>

\* find_route returns reader.val to its caller
EndFind ==
    /\ reader.pc = "done"
    /\ reader' = Idle
    /\ versions' = {}
    /\ UNCHANGED <<app, file, gdf, graph, flood_zones, n_overlays, ret, memo, writer>>

LoadIdle == writer = Idle /\ LoadRoadNetwork

NextThreads ==
    \/ LoadIdle
    \/ BeginBuild
    \/ BuildRow
    \/ EndBuild
    \/ \E zones \in ZoneLists : BeginOverlay(zones)
    \/ OverlayEdge
    \/ EndOverlay
    \/ \E s \in Queries, e \in Queries : BeginFind(s, e)
    \/ FindLength
    \/ FindCount
    \/ EndFind

SpecThreads == Init /\ [][NextThreads]_vars

(***************************************************************************)
(* Vocabulary of the properties.                                           *)
(***************************************************************************)
\* the true length of an edge, fixed by its geometry when it was built
base_distance(d) ==
    haversine_distance(d.geometry[1][2], d.geometry[1][1], d.geometry[2][2], d.geometry[2][1])

Built == graph # None

IsSuccess(v) == "features" \in DOMAIN v

Hit(d, zones) == \E k \in 1..Len(zones) : intersects(d.geometry, zones[k])

Nodes(G) == Range(G.nodes)

\* the vertices connected to a vertex of S
RECURSIVE Component(_, _)
Component(G, S) ==
    LET T == S \cup { n \in Nodes(G) : \E m \in S : Contains(G.adj[m], n) }
    IN  IF T = S THEN S ELSE Component(G, T)

RECURSIVE BaseSum(_, _, _)
BaseSum(G, path, i) ==
    IF i > Len(path) - 1 THEN 0
    ELSE base_distance(G.data[{path[i], path[i + 1]}]) + BaseSum(G, path, i + 1)

Props(v) == v.features[1].properties

PathOf(v) == v.features[1].geometry.coordinates

Nearest(q) == _find_nearest_node(graph, q.lat, q.lon)

\* a and b are joined by a direct edge and by the detour through c, and by
\* nothing else; the detour is longer than the direct edge, less than 100 times
DirectAndDetour(G, a, b, c) ==
    /\ a # b /\ a # c /\ b # c
    /\ Range(G.adj[a]) = {b, c}
    /\ Range(G.adj[b]) = {a, c}
    /\ Range(G.adj[c]) = {a, b}
    /\ LET direct == base_distance(G.data[{a, b}])
           detour == base_distance(G.data[{a, c}]) + base_distance(G.data[{c, b}])
       IN  detour > direct /\ detour < PENALTY_FACTOR * direct

\* C1 (as claimed): after any sequence of builds and overlays every edge weighs
\* its base distance when it is not flagged and 100 times its base distance
\* when it is flagged
C1_WeightInvariant ==
    Built =>
        \A k \in DOMAIN graph.data :
            LET d == graph.data[k]
            IN  d.weight = IF d.is_flooded THEN base_distance(d) * PENALTY_FACTOR
                                           ELSE base_distance(d)

\* C2 (as claimed): when set_flood_zones(Z), Z not empty, has completed on a
\* built graph, an edge is flagged exactly if it intersects a zone of Z; a
\* flagged edge weighs 100 times its base distance, any other its base distance
C2_FlagsReflectCurrentZones ==
    (ret.op = "set_flood_zones" /\ flood_zones # << >> /\ Built) =>
        \A k \in DOMAIN graph.data :
            LET d == graph.data[k]
            IN  /\ d.is_flooded <=> Hit(d, flood_zones)
                /\ d.weight = IF Hit(d, flood_zones) THEN base_distance(d) * PENALTY_FACTOR
                                                     ELSE base_distance(d)

\* C3 (as claimed): the distance a successful find_route reports is the sum of
\* the base distances of the edges of the path it returns
C3_DistanceIsBaseSum ==
    (ret.op = "find_route" /\ IsSuccess(ret.val)) =>
        /\ Props(ret.val).distance_meters = BaseSum(graph, PathOf(ret.val), 1)
        /\ ret.val.metadata.distance_meters = BaseSum(graph, PathOf(ret.val), 1)

\* C4: where a and b are joined by a direct edge and by a longer detour
\* through c, a route from a to b is the direct edge before any overlay; after
\* one overlay whose zones intersect the direct edge only it is the detour
\* a, c, b with no hazardous segment and a greater distance
C4_DetourAfterOneOverlay ==
    (ret.op = "find_route" /\ Built) =>
        \A a \in Nodes(graph), b \in Nodes(graph), c \in Nodes(graph) :
            ( /\ DirectAndDetour(graph, a, b, c)
              /\ Nearest(ret.args[1]) = [node |-> a]
              /\ Nearest(ret.args[2]) = [node |-> b] ) =>
                /\ n_overlays = 0 =>
                      /\ IsSuccess(ret.val)
                      /\ PathOf(ret.val) = <<a, b>>
                      /\ Props(ret.val).distance_meters = base_distance(graph.data[{a, b}])
                /\ ( /\ n_overlays = 1
                     /\ flood_zones # << >>
                     /\ \A k \in DOMAIN graph.data :
                            Hit(graph.data[k], flood_zones) <=> k = {a, b} ) =>
                      /\ IsSuccess(ret.val)
                      /\ PathOf(ret.val) = <<a, c, b>>
                      /\ Props(ret.val).nodes_count = 3
                      /\ Props(ret.val).flooded_segments = 0
                      /\ Props(ret.val).distance_meters > base_distance(graph.data[{a, b}])

\* the detour was taken after one overlay of the direct road of the test map
C4_Witness ==
    /\ ret.op = "find_route"
    /\ Built
    /\ file = TestMap
    /\ n_overlays = 1
    /\ flood_zones = <<ZoneDirect>>
    /\ IsSuccess(ret.val)
    /\ PathOf(ret.val) = <<PA, PC, PB>>

\* C5: find_route on a planner without a graph, or with a graph without
\* vertices, returns None, raises nothing and does not call the search
C5_NotReadyNoSearch ==
    (ret.op = "find_route" /\ (~Built \/ Len(graph.nodes) = 0)) =>
        /\ ret.val = None
        /\ ~IsExc(ret.val)
        /\ ~ret.searched

\* find_route was called on a built graph without vertices
C5_Witness ==
    /\ ret.op = "find_route"
    /\ Built
    /\ Len(graph.nodes) = 0
    /\ ret.val = None

\* C6: when the vertices nearest to the origin and to the destination lie in
\* different components, find_route returns the no-path result, which carries
\* neither coordinates nor metrics, and raises nothing
C6_NoPathNoPartialResult ==
    (ret.op = "find_route" /\ Built) =>
        LET s == Nearest(ret.args[1])
            e == Nearest(ret.args[2])
        IN  ( /\ "node" \in DOMAIN s
              /\ "node" \in DOMAIN e
              /\ e.node \notin Component(graph, {s.node}) ) =>
                /\ ret.val = NoPathResult
                /\ ~IsExc(ret.val)
                /\ DOMAIN ret.val = {"metadata"}
                /\ DOMAIN ret.val.metadata = {"status", "message"}
                /\ ret.val.metadata.status # "success"

\* a route was asked between the two components of the island map
C6_Witness ==
    /\ ret.op = "find_route"
    /\ file = IslandMap
    /\ Built
    /\ Nearest(ret.args[1]) = [node |-> PA]
    /\ Nearest(ret.args[2]) = [node |-> PD]
    /\ ret.val = NoPathResult

\* C7: a find_route call leaves gdf, graph and flood_zones as they were, and
\* returns what an earlier call with the same arguments returned when no build
\* or overlay came in between
C7_FindRouteReadOnly ==
    [][ ret'.op = "find_route" =>
            /\ UNCHANGED <<gdf, graph, flood_zones>>
            /\ ret'.repeated => ret'.val = memo.val ]_vars

\* a successful call was repeated on a graph with penalised edges
C7_Witness ==
    /\ ret.op = "find_route"
    /\ ret.repeated
    /\ IsSuccess(ret.val)
    /\ \E k \in DOMAIN graph.data : graph.data[k].is_flooded

\* C8 (as claimed): build_graph on road data without paths, or without road
\* data, reports failure and installs no graph
C8_EmptyBuildFails ==
    (ret.op = "build_graph" /\ (gdf = None \/ Len(gdf.rows) = 0)) =>
        /\ ret.val = False
        /\ graph = None

\* C9 (as claimed): a fault inside the try block of find_route is reported by
\* a value that is neither a success result, nor the no-path result, nor what
\* find_route returns on a planner that is not ready
C9_FaultReportedDistinctly ==
    (ret.op = "find_route" /\ ret.fault) =>
        /\ ~IsSuccess(ret.val)
        /\ ret.val # NoPathResult
        /\ ret.val # find_route(None, ret.args[1].lat, ret.args[1].lon,
                                ret.args[2].lat, ret.args[2].lon).val

\* C10 (as claimed): a search that overlaps a build or an overlay returns what
\* find_route returns on the graph before or on the graph after that write
C10_SearchReadsOneVersion ==
    reader.pc = "done" =>
        \E G \in versions :
            reader.val = find_route(G, reader.args[1].lat, reader.args[1].lon,
                                    reader.args[2].lat, reader.args[2].lon).val

\* the segments build_graph inserts: row r, part j, position i (all from 1),
\* from u to v
Insertions(rows) ==
    UNION { UNION { { [r |-> r, j |-> j, i |-> i,
                       u |-> rows[r].geoms[j][i], v |-> rows[r].geoms[j][i + 1]] :
                      i \in 1..(Len(rows[r].geoms[j]) - 1) } :
                    j \in 1..Len(rows[r].geoms) } :
            r \in { q \in 1..Len(rows) :
                      rows[q].geom_type \in {"LineString", "MultiLineString"} } }

\* a is inserted after b
InsertedAfter(a, b) ==
    \/ a.r > b.r
    \/ (a.r = b.r /\ a.j > b.j)
    \/ (a.r = b.r /\ a.j = b.j /\ a.i > b.i)

NoDuplicates(s) == \A i \in 1..Len(s), j \in 1..Len(s) : s[i] = s[j] => i = j

\* C11: when build_graph has completed, every coordinate of every path is a
\* vertex; the edges are exactly the pairs of consecutive coordinates, one edge
\* per unordered pair; each edge is unflagged, weighs its base distance and
\* carries the segment_id and geometry of the last insertion of its pair
C11_BuildLastInsertionWins ==
    (ret.op = "build_graph" /\ ret.val = True) =>
        LET I == Insertions(gdf.rows)
        IN  /\ \A x \in I : x.u \in Nodes(graph) /\ x.v \in Nodes(graph)
            /\ DOMAIN graph.data = { {x.u, x.v} : x \in I }
            /\ NoDuplicates(graph.nodes)
            /\ \A n \in Nodes(graph) : NoDuplicates(graph.adj[n])
            /\ \A x \in I :
                 LET d    == graph.data[{x.u, x.v}]
                     last == CHOOSE y \in I :
                                /\ {y.u, y.v} = {x.u, x.v}
                                /\ \A z \in I : {z.u, z.v} = {x.u, x.v} =>
                                                  (z = y \/ InsertedAfter(y, z))
                 IN  /\ Contains(graph.adj[x.u], x.v)
                     /\ Contains(graph.adj[x.v], x.u)
                     /\ d.is_flooded = FALSE
                     /\ d.weight = haversine_distance(x.u[2], x.u[1], x.v[2], x.v[1])
                     /\ d.weight = base_distance(d)
                     /\ d.segment_id = <<last.r - 1, last.i - 1>>
                     /\ d.geometry = <<last.u, last.v>>

\* the island map was built: the pair PA, PB, inserted by feature 0 and again
\* by feature 3, carries the attributes of feature 3
C11_Witness ==
    /\ ret.op = "build_graph"
    /\ ret.val = True
    /\ file = IslandMap
    /\ graph.data[{PA, PB}].segment_id = <<3, 0>>
    /\ graph.data[{PA, PB}].geometry = <<PB, PA>>

\* the distance from query q to vertex n
QueryDistance(q, n) == haversine_distance(q.lat, q.lon, n[2], n[1])

\* C12: on a graph whose vertices are (lon, lat) pairs, the nearest-vertex
\* lookup returns not-found exactly when the graph has no vertex; otherwise it
\* returns a vertex at minimal distance from the query, the first such vertex
\* in enumeration order
C12_NearestIsFirstMinimum ==
    (ret.op = "_find_nearest_node" /\ Built /\ \A n \in Nodes(graph) : Len(n) = 2) =>
        /\ ret.val = None <=> Len(graph.nodes) = 0
        /\ Len(graph.nodes) > 0 =>
              /\ "node" \in DOMAIN ret.val
              /\ \E i \in 1..Len(graph.nodes) :
                    /\ graph.nodes[i] = ret.val.node
                    /\ \A j \in 1..Len(graph.nodes) :
                          QueryDistance(ret.args, graph.nodes[i])
                              <= QueryDistance(ret.args, graph.nodes[j])
                    /\ \A j \in 1..(i - 1) :
                          QueryDistance(ret.args, graph.nodes[j])
                              > QueryDistance(ret.args, graph.nodes[i])

\* the lookup was called with a coordinate as far from PD as from PE, which
\* are the two closest vertices, and returned PD, enumerated first
C12_Witness ==
    /\ ret.op = "_find_nearest_node"
    /\ Built
    /\ file = IslandMap
    /\ QueryDistance(ret.args, PD) = QueryDistance(ret.args, PE)
    /\ \A n \in Nodes(graph) : QueryDistance(ret.args, PD) <= QueryDistance(ret.args, n)
    /\ ret.val = [node |-> PD]

(***************************************************************************)
(* app/main.py: the module is imported with no planner, initialize_app     *)
(* runs once, then the route endpoint serves requests.                     *)
(*   app.planner   the global planner is set                               *)
(*   app.failed    the step of initialize_app that failed: "missing" (no   *)
(*                 file), "load", "build", "hazard" (obtaining the zones   *)
(*                 or laying them over the graph), or "none"               *)
(***************************************************************************)
InitApp ==
    /\ file \in AppFiles
    /\ gdf = None
    /\ graph = None
    /\ flood_zones = << >>
    /\ n_overlays = 0
    /\ ret = [op |-> "import"]
    /\ memo = None
    /\ writer = Idle
    /\ reader = Idle
    /\ versions = {}
    /\ app = [pc |-> "import", planner |-> FALSE]

\* what initialize_app leaves behind; service_fails tells whether
\* FloodService().get_flood_polygons() raises, zones is what it returns otherwise
Initialized(zones, service_fails) ==
    LET loaded  == load_road_network(file, None)
        built   == build_graph(loaded.gdf, None)
        overlay == _mark_flooded_edges(built.graph, zones)
        Left(planner, failed, the_gdf, the_graph, the_zones, calls) ==
            [planner |-> planner, failed |-> failed, gdf |-> the_gdf, graph |-> the_graph,
             flood_zones |-> the_zones, n_overlays |-> calls]
    IN  IF file = Missing THEN Left(FALSE, "missing", None, None, << >>, 0)
        ELSE IF ~loaded.ret THEN Left(TRUE, "load", loaded.gdf, None, << >>, 0)
        ELSE IF IsExc(built.exc) \/ ~built.ret THEN Left(TRUE, "build", loaded.gdf, built.graph, << >>, 0)
        ELSE IF service_fails THEN Left(TRUE, "hazard", loaded.gdf, built.graph, << >>, 0)
        ELSE IF IsExc(overlay.ret) THEN Left(TRUE, "hazard", loaded.gdf, overlay.graph, zones, 1)
        ELSE Left(TRUE, "none", loaded.gdf, overlay.graph, zones, 1)

\* initialize_app: every exception is caught, the function returns None
InitializeApp(zones, service_fails) ==
    /\ app.pc = "import"
    /\ LET i == Initialized(zones, service_fails)
       IN  /\ app' = [pc |-> "serving", planner |-> i.planner, failed |-> i.failed]
           /\ gdf' = i.gdf
           /\ graph' = i.graph
           /\ flood_zones' = i.flood_zones
           /\ n_overlays' = i.n_overlays
    /\ ret' = [op |-> "initialize_app", val |-> None]
    /\ UNCHANGED <<file, memo, threads>>

\* request parameters: a coordinate that validate_coordinates accepts, an
\* absent parameter, a parameter that validate_coordinates rejects
MissingParam == [param |-> "missing"]

InvalidParam == [param |-> "invalid"]

Params == Queries \cup {MissingParam, InvalidParam}

\* the status code and the body of the answer of get_evacuation_route
Response(start_param, end_param) ==
    IF ~app.planner \/ graph = None
    THEN [code |-> 503, body |-> [error |-> "Serwer nie jest gotowy (brak mapy)"]]
    ELSE IF start_param = MissingParam \/ end_param = MissingParam
    THEN [code |-> 400, body |-> [error |-> "Brak parametrow start/end"]]
    ELSE IF start_param = InvalidParam \/ end_param = InvalidParam
    THEN [code |-> 400, body |-> [error |-> "ValueError"]]
    ELSE LET result == find_route(graph, start_param.lat, start_param.lon,
                                  end_param.lat, end_param.lon).val
         IN  IF result = None THEN [code |-> 500, body |-> [error |-> "Blad obliczen"]]
             ELSE IF result.metadata.status = "error" THEN [code |-> 404, body |-> result]
             ELSE [code |-> 200, body |-> result]

GetEvacuationRoute(start_param, end_param) ==
    /\ app.pc = "serving"
    /\ LET r == Response(start_param, end_param)
       IN  ret' = [op |-> "get_evacuation_route", args |-> <<start_param, end_param>>,
                   code |-> r.code, body |-> r.body]
    /\ UNCHANGED <<app, file, gdf, graph, flood_zones, n_overlays, memo, threads>>

NextApp ==
    \/ \E zones \in ZoneLists, service_fails \in BOOLEAN : InitializeApp(zones, service_fails)
    \/ \E start_param \in Params, end_param \in Params :
          GetEvacuationRoute(start_param, end_param)

SpecApp == InitApp /\ [][NextApp]_vars

\* a request with two coordinates was answered
RouteRequested ==
    /\ ret.op = "get_evacuation_route"
    /\ ret.args[1] \in Queries
    /\ ret.args[2] \in Queries

\* C13 (as claimed): initialize_app returns without raising; when obtaining
\* or applying the hazard zones failed, the planner keeps its built graph and
\* route requests are answered, not refused as not ready; when the file was
\* missing or loading or building failed, no graph is installed and every
\* route request gets the not-ready answer 503
C13_InitFailuresDegrade ==
    /\ ret.op = "initialize_app" => ret.val = None
    /\ app.pc = "serving" =>
          /\ app.failed = "hazard" =>
                /\ app.planner
                /\ Built
                /\ graph = build_graph(gdf, None).graph
                /\ RouteRequested => ret.code # 503
          /\ app.failed \in {"missing", "load", "build"} =>
                /\ ~app.planner \/ ~Built
                /\ ret.op = "get_evacuation_route" => ret.code = 503

\* the simple paths of G that extend p to t
RECURSIVE PathsFrom(_, _, _)
PathsFrom(G, p, t) ==
    IF p[Len(p)] = t THEN {p}
    ELSE UNION { PathsFrom(G, Append(p, n), t) : n \in Range(G.adj[p[Len(p)]]) \ Range(p) }

\* the sum of the weight attribute, the cost the search minimises
RECURSIVE SearchWeight(_, _, _)
SearchWeight(G, path, i) ==
    IF i > Len(path) - 1 THEN 0
    ELSE G.data[{path[i], path[i + 1]}].weight + SearchWeight(G, path, i + 1)

\* C14: the path of a successful find_route runs along edges of the graph
\* from the vertex nearest the origin to the vertex nearest the destination,
\* and no path between these two vertices has a smaller total weight, flooded
\* and penalised edges included (weights are not negative, so a path that
\* repeats a vertex is never lighter than a simple one)
C14_RouteIsMinimalPath ==
    (ret.op = "find_route" /\ IsSuccess(ret.val)) =>
        LET path == PathOf(ret.val)
        IN  /\ Len(path) >= 1
            /\ [node |-> path[1]] = Nearest(ret.args[1])
            /\ [node |-> path[Len(path)]] = Nearest(ret.args[2])
            /\ \A i \in 1..(Len(path) - 1) : {path[i], path[i + 1]} \in DOMAIN graph.data
            /\ \A p \in PathsFrom(graph, <<path[1]>>, path[Len(path)]) :
                  SearchWeight(graph, path, 1) <= SearchWeight(graph, p, 1)

\* a route around a penalised edge, where a path with fewer edges exists
C14_Witness ==
    /\ ret.op = "find_route"
    /\ IsSuccess(ret.val)
    /\ \E k \in DOMAIN graph.data : graph.data[k].is_flooded /\ graph.data[k].weight > base_distance(graph.data[k])
    /\ \E p \in PathsFrom(graph, <<PathOf(ret.val)[1]>>, PathOf(ret.val)[Len(PathOf(ret.val))]) :
          /\ Len(p) < Len(PathOf(ret.val))
          /\ SearchWeight(graph, p, 1) > SearchWeight(graph, PathOf(ret.val), 1)

(***************************************************************************)
(* The search of find_route, one step of astar_path's loops at a time: the *)
(* while loop pops an entry, the for loop relaxes one neighbour.  The      *)
(* planner is used by one caller: the graph changes between searches only. *)
(* The loops run in the calling thread and wait for nothing, so a step     *)
(* that can run does run.                                                  *)
(*   reader.pc         "searching" at the head of the while loop,          *)
(*                     "relaxing" in the for loop over the neighbours of   *)
(*                     reader.top.node, "Found", "NoPath"                  *)
(*   reader.expanded   the vertices whose neighbours were relaxed, in      *)
(*                     order                                               *)
(*   reader.skipped    the number of popped entries that were dropped      *)
(***************************************************************************)
Searching == reader.pc \in {"searching", "relaxing"}

Terminated == reader.pc \in {"Found", "NoPath"}

\* find_route up to the call of astar_path
BeginSearch(s, e) ==
    /\ reader = Idle
    /\ Built
    /\ "node" \in DOMAIN Nearest(s)
    /\ "node" \in DOMAIN Nearest(e)
    /\ reader' = [pc |-> "searching", args |-> <<s, e>>, target |-> Nearest(e).node,
                  st |-> AStarStart(Nearest(s).node).st,
                  explored |-> AStarStart(Nearest(s).node).explored,
                  top |-> None, j |-> 0,
                  expanded |-> << >>, skipped |-> 0, path |-> << >>]
    /\ UNCHANGED <<app, file, gdf, graph, flood_zones, n_overlays, ret, memo, writer, versions>>

\* the head of the while loop: the queue is empty, or an entry is popped
SearchPop ==
    /\ reader.pc = "searching"
    /\ IF reader.st.queue = {}
       THEN reader' = [reader EXCEPT !.pc = "NoPath"]
       ELSE \E top \in {HeapTop(reader.st.queue)} :
            \E kind \in {PopKind(reader.target, top, reader.st, reader.explored)} :
               reader' = [reader EXCEPT
                   !.pc       = CASE kind = "found"    -> "Found"
                                  [] kind = "skipped"  -> "searching"
                                  [] kind = "expanded" -> "relaxing",
                   !.st       = [@ EXCEPT !.queue = @ \ {top}],
                   !.top      = top,
                   !.j        = 1,
                   !.path     = IF kind = "found"
                                THEN Append(PathTo(reader.explored, top.parent), top.node)
                                ELSE @,
                   !.explored = IF kind = "expanded" THEN Explore(@, top) ELSE @,
                   !.expanded = IF kind = "expanded" THEN Append(@, top.node) ELSE @,
                   !.skipped  = IF kind = "skipped" THEN @ + 1 ELSE @]
    /\ UNCHANGED <<app, file, gdf, graph, flood_zones, n_overlays, ret, memo, writer, versions>>

\* the for loop: the next neighbour is relaxed, or the loop is over
SearchRelax ==
    /\ reader.pc = "relaxing"
    /\ IF reader.j > Len(graph.adj[reader.top.node])
       THEN reader' = [reader EXCEPT !.pc = "searching"]
       ELSE reader' = [reader EXCEPT
                !.j  = @ + 1,
                !.st = RelaxOne(graph, reader.target, reader.top.node, reader.top.dist,
                                graph.adj[reader.top.node][reader.j], @)]
    /\ UNCHANGED <<app, file, gdf, graph, flood_zones, n_overlays, ret, memo, writer, versions>>

SearchStep == SearchPop \/ SearchRelax

\* the rest of find_route: the result is built and returned
EndSearch ==
    /\ Terminated
    /\ ret' = RouteCall(graph, reader.args[1], reader.args[2])
    /\ reader' = Idle
    /\ UNCHANGED <<app, file, gdf, graph, flood_zones, n_overlays, memo, writer, versions>>

NextSearch ==
    \/ reader = Idle /\ LoadRoadNetwork
    \/ reader = Idle /\ BuildGraph
    \/ \E zones \in ZoneLists : reader = Idle /\ SetFloodZones(zones)
    \/ \E s \in Queries, e \in Queries : BeginSearch(s, e)
    \/ SearchPop
    \/ SearchRelax
    \/ EndSearch

SpecSearch == Init /\ [][NextSearch]_vars /\ WF_vars(SearchStep)

\* the step-wise search ends as the call of astar_path does
SearchAgrees ==
    Terminated =>
        LET found == astar_path(graph, Nearest(reader.args[1]).node, reader.target)
        IN  IF reader.pc = "NoPath" THEN IsExc(found)
            ELSE found = [path |-> reader.path]

\* C15: a search that has begun ends in Found or NoPath, and at no moment of
\* a search has a vertex been expanded twice
C15_SearchTerminatesExpandingOnce ==
    /\ Searching ~> Terminated
    /\ []((Searching \/ Terminated) => NoDuplicates(reader.expanded))

\* a search over a graph with penalised edges has ended after expanding
\* several vertices and dropping an entry of a vertex expanded before
C15_Witness ==
    /\ Terminated
    /\ n_overlays >= 1
    /\ \E k \in DOMAIN graph.data : graph.data[k].is_flooded
    /\ Len(reader.expanded) >= 2
    /\ reader.skipped >= 1

====
